---- MODULE Spec2Model ----
(***************************************************************************)
(* Model of the medical-report analyser (src/app.py, with the earlier     *)
(* revision src/Dhruva_py_project_2/app.py where the two differ).         *)
(*                                                                         *)
(* Texts are TLA+ strings; TLC evaluates Len, \o, SubSeq, Head and Tail   *)
(* on them, so the string functions of the program (replace, strip,       *)
(* lower, the regular expressions, json.loads) are computed character by  *)
(* character.  A dict is a sequence of entries [k, t, v] in insertion     *)
(* order: k the key, t = "str" for a string value (held as v[1]) and      *)
(* t = "list" for a list of strings (held as v).                          *)
(***************************************************************************)
EXTENDS Integers, Sequences, FiniteSets, TLC

VARIABLES
    pc,            \* position of the request handler / of the function under check
    content,       \* index: text extracted from the upload
    ai_response,   \* classify_medical: reply of the classifier call
    is_med,        \* index: result of classify_medical
    model_choice,  \* index: request.form['model_choice']
    raw_text,      \* index: completion text (None or a string)
    data,          \* index: record returned by smart_parse_data
    response,      \* index: what the request ended in
    calls,         \* calls made by the request, in order
    local_llm,     \* module global: handle of the local model (FALSE = None)
    model_file,    \* os.path.exists(LOCAL_MODEL_PATH)
    loads,         \* number of times the local model was constructed
    nreq,          \* number of requests served so far
    revision,      \* which revision runs: "app" (src/app.py) or "v2" (Dhruva_py_project_2)
    threads,       \* load_local_model: position and locals of each thread calling it
    arg,           \* function under check: its input
    ret            \* function under check: its outputs

vars == <<pc, content, ai_response, is_med, model_choice, raw_text, data,
          response, calls, local_llm, model_file, loads, nreq, revision, threads, arg, ret>>

(***************************************************************************)
(* Python values                                                           *)
(***************************************************************************)
\* None / a string: an optional string.
None == [some |-> FALSE, s |-> ""]
Some(s) == [some |-> TRUE, s |-> s]

\* The i-th character of s, "" outside the string.
Ch(s, i) == IF i >= 1 /\ i <= Len(s) THEN SubSeq(s, i, i) ELSE ""

RECURSIVE IndexFrom(_, _, _)
\* Smallest index >= i of a character of s in set cs, 0 when there is none.
IndexFrom(s, cs, i) ==
    IF i > Len(s) THEN 0 ELSE IF Ch(s, i) \in cs THEN i ELSE IndexFrom(s, cs, i + 1)

UpperLetters == "ABCDEFGHIJKLMNOPQRSTUVWXYZ"
LowerLetters == "abcdefghijklmnopqrstuvwxyz"

UpperSet == {Ch(UpperLetters, i) : i \in 1..26}
LowerOf == [c \in UpperSet |-> Ch(LowerLetters, IndexFrom(UpperLetters, {c}, 1))]

\* str.lower() on one character.
LowerCh(c) == IF c \in UpperSet THEN LowerOf[c] ELSE c

LowerSet == {Ch(LowerLetters, i) : i \in 1..26}
UpperOf == [c \in LowerSet |-> Ch(UpperLetters, IndexFrom(LowerLetters, {c}, 1))]

RECURSIVE Upper(_)
\* str.upper()
Upper(s) ==
    IF s = "" THEN ""
    ELSE (IF Head(s) \in LowerSet THEN UpperOf[Head(s)] ELSE Head(s)) \o Upper(Tail(s))

RECURSIVE Lower(_)
\* str.lower()
Lower(s) == IF s = "" THEN "" ELSE LowerCh(Head(s)) \o Lower(Tail(s))

\* s.startswith(sub, i-1)
StartsAt(s, sub, i) == i + Len(sub) - 1 <= Len(s) /\ SubSeq(s, i, i + Len(sub) - 1) = sub

\* sub in s
Contains(s, sub) == \E i \in 1..(Len(s) + 1) : StartsAt(s, sub, i)

RECURSIVE Replace(_, _, _)
\* s.replace(old, new), old non-empty
Replace(s, old, new) ==
    IF s = "" THEN ""
    ELSE IF StartsAt(s, old, 1)
         THEN new \o Replace(SubSeq(s, Len(old) + 1, Len(s)), old, new)
         ELSE Head(s) \o Replace(Tail(s), old, new)

\* The whitespace of the modelled alphabet (str.strip, str.split, regex \s, JSON).
Whitespace == {" ", "\n", "\t", "\r"}

RECURSIVE LStrip(_)
LStrip(s) == IF s # "" /\ Head(s) \in Whitespace THEN LStrip(Tail(s)) ELSE s

RECURSIVE RStrip(_)
RStrip(s) ==
    IF s # "" /\ Ch(s, Len(s)) \in Whitespace THEN RStrip(SubSeq(s, 1, Len(s) - 1)) ELSE s

\* str.strip()
Strip(s) == RStrip(LStrip(s))

RECURSIVE Collapse(_)
\* Every run of whitespace inside s becomes one space.
Collapse(s) ==
    IF s = "" THEN ""
    ELSE IF Head(s) \in Whitespace
         THEN " " \o Collapse(LStrip(s))
         ELSE Head(s) \o Collapse(Tail(s))

\* ' '.join(s.split())
JoinSplit(s) == Collapse(Strip(s))

RECURSIVE LastIndexFrom(_, _, _)
\* Largest index <= i of a character of s in set cs, 0 when there is none.
LastIndexFrom(s, cs, i) ==
    IF i < 1 THEN 0 ELSE IF Ch(s, i) \in cs THEN i ELSE LastIndexFrom(s, cs, i - 1)

\* Largest index of a character of s in set cs, 0 when there is none.
LastIndex(s, cs) == LastIndexFrom(s, cs, Len(s))

RECURSIVE SkipWs(_, _)
\* Index of the first character at or after i that is not whitespace.
SkipWs(s, i) == IF Ch(s, i) \in Whitespace THEN SkipWs(s, i + 1) ELSE i

(***************************************************************************)
(* dict                                                                    *)
(***************************************************************************)
Entry(k, t, v) == [k |-> k, t |-> t, v |-> v]

HasKey(d, k) == \E i \in 1..Len(d) : d[i].k = k

\* d[k] = value: an existing key keeps its place, a new key is appended.
DictSet(d, k, t, v) ==
    IF HasKey(d, k)
    THEN [i \in 1..Len(d) |-> IF d[i].k = k THEN Entry(k, t, v) ELSE d[i]]
    ELSE Append(d, Entry(k, t, v))

\* A value handed to filter_unwanted_keys or returned by smart_parse_data.
Dict(items) == [isdict |-> TRUE, items |-> items, other |-> ""]
NonDict(s) == [isdict |-> FALSE, items |-> <<>>, other |-> s]

(***************************************************************************)
(* filter_unwanted_keys                                                    *)
(***************************************************************************)
unwanted_patterns ==
    << "contact", "phone", "email", "address", "patient_id", "hospital_id",
       "clinic", "name", "patient_name", "doctor_name", "provider",
       "id_number", "insurance", "account", "mrn", "medical_record",
       "zip", "postal", "street", "city", "state", "country",
       "fax", "mobile", "phone_number", "contact_person",
       "dob", "date_of_birth", "age_in_years", "sex",
       "occupation", "employer", "reference", "next_of_kin" >>

personal_markers == << "@", "tel:", "phone:", "+91", "+1" >>

\* key.lower().replace(' ', '_')
KeyLower(key) == Replace(Lower(key), " ", "_")

\* any(pattern in key_lower for pattern in unwanted_patterns)
UnwantedKey(key) ==
    \E i \in 1..Len(unwanted_patterns) : Contains(KeyLower(key), unwanted_patterns[i])

\* not value or (isinstance(value, list) and len(value) == 0)
EmptyValue(e) == IF e.t = "str" THEN e.v[1] = "" ELSE Len(e.v) = 0

RECURSIVE EscapeRepr(_, _)
\* The body of repr(s) between the quotes q.
EscapeRepr(s, q) ==
    IF s = "" THEN ""
    ELSE LET c == Head(s)
             out == IF c = "\\" THEN "\\\\"
                    ELSE IF c = "\n" THEN "\\n"
                    ELSE IF c = "\t" THEN "\\t"
                    ELSE IF c = "\r" THEN "\\r"
                    ELSE IF c = q THEN "\\" \o q
                    ELSE c
         IN out \o EscapeRepr(Tail(s), q)

\* repr(s) of a str: single quotes unless s holds a ' and no ".
Repr(s) ==
    LET q == IF Contains(s, "'") /\ ~Contains(s, "\"") THEN "\"" ELSE "'"
    IN q \o (IF Contains(s, q) THEN EscapeRepr(s, q) ELSE EscapeRepr(s, "")) \o q

RECURSIVE JoinRepr(_, _)
JoinRepr(v, i) ==
    IF i > Len(v) THEN ""
    ELSE (IF i > 1 THEN ", " ELSE "") \o Repr(v[i]) \o JoinRepr(v, i + 1)

\* str(value).lower()
ValueStr(e) == IF e.t = "str" THEN Lower(e.v[1]) ELSE Lower("[" \o JoinRepr(e.v, 1) \o "]")

\* any(pattern in value_str for pattern in ['@', 'tel:', 'phone:', '+91', '+1'])
PersonalValue(e) ==
    \E i \in 1..Len(personal_markers) : Contains(ValueStr(e), personal_markers[i])

\* Mutant: the empty-value test is missing.
KeepEntryNoEmptyTest(e) == ~UnwantedKey(e.k) /\ ~PersonalValue(e)

\* One iteration of the loop keeps the entry: none of the three continue statements is taken.
KeepEntry(e) == ~UnwantedKey(e.k) /\ ~EmptyValue(e) /\ ~PersonalValue(e)

RECURSIVE FilterLoopSkipping(_, _, _)
\* Mutant: removing a key while iterating steps over the entry after it, which
\* stays in the record unexamined.
FilterLoopSkipping(d, i, filtered) ==
    IF i > Len(d) THEN filtered
    ELSE IF KeepEntry(d[i])
         THEN FilterLoopSkipping(d, i + 1, Append(filtered, d[i]))
         ELSE FilterLoopSkipping(d, i + 2,
                  IF i + 1 <= Len(d) THEN Append(filtered, d[i + 1]) ELSE filtered)

RECURSIVE FilterLoop(_, _, _)
\* for key, value in data.items(): ... filtered[key] = value
FilterLoop(d, i, filtered) ==
    IF i > Len(d) THEN filtered
    ELSE FilterLoop(d, i + 1, IF KeepEntry(d[i]) THEN Append(filtered, d[i]) ELSE filtered)

filter_unwanted_keys(x) ==
    IF ~x.isdict THEN x ELSE Dict(FilterLoop(x.items, 1, <<>>))

(***************************************************************************)
(* json.loads, for the flat objects the prompts ask for: string keys,     *)
(* values that are strings or lists of strings.                            *)
(***************************************************************************)
JsonFail == [ok |-> FALSE, pos |-> 0, t |-> "str", v |-> <<>>]

RECURSIVE JsonScanString(_, _, _)
\* The scan of a string after its opening quote: to the closing quote, with
\* the simple escapes; a control character or the end of the text is an error.
JsonScanString(s, i, acc) ==
    LET c == Ch(s, i) IN
    IF c = "" \/ c \in {"\n", "\t", "\r"} THEN JsonFail
    ELSE IF c = "\"" THEN [ok |-> TRUE, pos |-> i + 1, t |-> "str", v |-> <<acc>>]
    ELSE IF c = "\\"
         THEN LET e == Ch(s, i + 1) IN
              IF e \in {"\"", "\\", "/"} THEN JsonScanString(s, i + 2, acc \o e)
              ELSE IF e = "n" THEN JsonScanString(s, i + 2, acc \o "\n")
              ELSE IF e = "t" THEN JsonScanString(s, i + 2, acc \o "\t")
              ELSE IF e = "r" THEN JsonScanString(s, i + 2, acc \o "\r")
              ELSE JsonFail
    ELSE JsonScanString(s, i + 1, acc \o c)

\* A JSON string starting at i.
JsonString(s, i) == IF Ch(s, i) = "\"" THEN JsonScanString(s, i + 1, "") ELSE JsonFail

RECURSIVE JsonArrayItems(_, _, _)
\* The items of an array, i at the start of an item.
JsonArrayItems(s, i, acc) ==
    LET item == JsonString(s, i) IN
    IF ~item.ok THEN JsonFail
    ELSE LET j == SkipWs(s, item.pos)
             items == Append(acc, item.v[1])
         IN IF Ch(s, j) = "," THEN JsonArrayItems(s, SkipWs(s, j + 1), items)
            ELSE IF Ch(s, j) = "]" THEN [ok |-> TRUE, pos |-> j + 1, t |-> "list", v |-> items]
            ELSE JsonFail

\* A JSON array of strings starting at i.
JsonArray(s, i) ==
    IF Ch(s, i) # "[" THEN JsonFail
    ELSE LET j == SkipWs(s, i + 1) IN
         IF Ch(s, j) = "]" THEN [ok |-> TRUE, pos |-> j + 1, t |-> "list", v |-> <<>>]
         ELSE JsonArrayItems(s, j, <<>>)

\* A JSON value starting at i.
JsonValue(s, i) == IF Ch(s, i) = "[" THEN JsonArray(s, i) ELSE JsonString(s, i)

RECURSIVE JsonMembers(_, _, _)
\* The members of an object, i at the start of a key.  The result's pos is
\* the index after the closing brace and v the dict.
JsonMembers(s, i, d) ==
    LET key == JsonString(s, i) IN
    IF ~key.ok THEN JsonFail
    ELSE LET c == SkipWs(s, key.pos) IN
         IF Ch(s, c) # ":" THEN JsonFail
         ELSE LET val == JsonValue(s, SkipWs(s, c + 1)) IN
              IF ~val.ok THEN JsonFail
              ELSE LET j == SkipWs(s, val.pos)
                       dd == DictSet(d, key.v[1], val.t, val.v)
                   IN IF Ch(s, j) = "," THEN JsonMembers(s, SkipWs(s, j + 1), dd)
                      ELSE IF Ch(s, j) = "}" THEN [ok |-> TRUE, pos |-> j + 1, t |-> "dict", v |-> dd]
                      ELSE JsonFail

\* A JSON object starting at i.
JsonObject(s, i) ==
    IF Ch(s, i) # "{" THEN JsonFail
    ELSE LET j == SkipWs(s, i + 1) IN
         IF Ch(s, j) = "}" THEN [ok |-> TRUE, pos |-> j + 1, t |-> "dict", v |-> <<>>]
         ELSE JsonMembers(s, j, <<>>)

\* json.loads(s) for s starting with a brace: ok = FALSE models the exception.
\* Only whitespace may follow the object.
json_loads(s) ==
    LET obj == JsonObject(s, SkipWs(s, 1)) IN
    IF obj.ok /\ SkipWs(s, obj.pos) = Len(s) + 1 THEN obj ELSE JsonFail

(***************************************************************************)
(* smart_parse_data                                                        *)
(***************************************************************************)
Quotes == {"\"", "'"}

\* The module language has no backtick in its strings: the character ~ stands
\* for it throughout, and no text of the model uses ~ for anything else.
Fence == "~~~"
FenceJson == "~~~json"

\* text.replace(FenceJson, "").replace(Fence, "").strip()
CleanText(s) == Strip(Replace(Replace(s, FenceJson, ""), Fence, ""))

\* Mutant: the span ends at the first closing brace (a lazy \{.*?\}).
BraceSpanLazy(s) ==
    LET first == IndexFrom(s, {"{"}, 1)
        close == IF first = 0 THEN 0 ELSE IndexFrom(s, {"}"}, first + 1)
    IN IF close = 0 THEN None ELSE Some(SubSeq(s, first, close))

\* re.search(r'\{.*\}', text, re.DOTALL): from the first { to the last } after
\* it; None when there is no such pair.
BraceSpan(s) ==
    LET first == IndexFrom(s, {"{"}, 1)
        last == LastIndex(s, {"}"})
    IN IF first = 0 \/ last < first THEN None ELSE Some(SubSeq(s, first, last))

\* True when no character of s at i..j is a newline (what . matches without DOTALL).
NoNewline(s, i, j) == \A m \in i..j : Ch(s, m) # "\n"

\* The tail \s*:\s*(\[.*?\]) of the list pattern after a closing quote at e.
ListTail(s, e) ==
    LET c == SkipWs(s, e + 1)
        b == SkipWs(s, c + 1)
        close == IndexFrom(s, {"]"}, b + 1)
    IN IF Ch(s, c) = ":" /\ Ch(s, b) = "[" /\ close # 0
       THEN [ok |-> TRUE, open |-> b, close |-> close]
       ELSE [ok |-> FALSE, open |-> 0, close |-> 0]

RECURSIVE ListKeyEndFrom(_, _)
\* The first quote at or after e that the tail of the list pattern follows.
ListKeyEndFrom(s, e) ==
    LET q == IndexFrom(s, Quotes, e)
    IN IF q = 0 THEN 0 ELSE IF ListTail(s, q).ok THEN q ELSE ListKeyEndFrom(s, q + 1)

\* The lazy key group (.*?) of the list pattern for an opening quote at st: the
\* index of the first quote after st that the tail follows, 0 when there is none.
\* The group may run over other quotes on its way.
ListKeyEnd(s, st) == ListKeyEndFrom(s, st + 1)

RECURSIVE ListFindAll(_, _, _)
\* re.findall(r'["\'](.*?)["\']\s*:\s*(\[.*?\])', text, re.DOTALL) from index p:
\* the (key, raw_list) pairs of the non-overlapping matches, left to right.
ListFindAll(s, p, acc) ==
    LET st == IndexFrom(s, Quotes, p) IN
    IF st = 0 THEN acc
    ELSE LET e == ListKeyEnd(s, st) IN
         IF e = 0 THEN ListFindAll(s, st + 1, acc)
         ELSE LET tl == ListTail(s, e) IN
              ListFindAll(s, tl.close + 1,
                  Append(acc, [key |-> SubSeq(s, st + 1, e - 1),
                               raw_list |-> SubSeq(s, tl.open, tl.close)]))

RECURSIVE ItemsFindAll(_, _, _)
\* re.findall(r'["\'](.*?)["\']', raw_list) from index p.
ItemsFindAll(r, p, acc) ==
    LET st == IndexFrom(r, Quotes, p)
        e == IF st = 0 THEN 0 ELSE IndexFrom(r, Quotes, st + 1)
    IN IF e = 0 THEN acc
       ELSE IF ~NoNewline(r, st + 1, e - 1) THEN ItemsFindAll(r, st + 1, acc)
       ELSE ItemsFindAll(r, e + 1, Append(acc, SubSeq(r, st + 1, e - 1)))

RECURSIVE ListLoop(_, _, _)
\* for key, raw_list in matches: items = ...; if items: data[key] = items
ListLoop(matches, i, d) ==
    IF i > Len(matches) THEN d
    ELSE LET items == ItemsFindAll(matches[i].raw_list, 1, <<>>) IN
         ListLoop(matches, i + 1,
                  IF Len(items) > 0 THEN DictSet(d, matches[i].key, "list", items) ELSE d)

summary_keys == << "summary", "patient summary", "overview" >>

\* The summary pattern matched with its opening quote at st and key word w.
SummaryAt(s, st, w) ==
    LET q == st + Len(w) + 1
        c == SkipWs(s, q + 1)
        b == SkipWs(s, c + 1)
        e == IndexFrom(s, Quotes, b + 1)
    IN IF /\ Ch(s, st) \in Quotes
          /\ q <= Len(s) /\ Lower(SubSeq(s, st + 1, q - 1)) = w
          /\ Ch(s, q) \in Quotes /\ Ch(s, c) = ":" /\ Ch(s, b) \in Quotes
          /\ e # 0 /\ NoNewline(s, b + 1, e - 1)
       THEN Some(SubSeq(s, b + 1, e - 1))
       ELSE None

RECURSIVE SummarySearchFrom(_, _)
\* The leftmost match of the summary pattern with its opening quote at or after p.
SummarySearchFrom(s, p) ==
    LET st == IndexFrom(s, Quotes, p) IN
    IF st = 0 THEN None
    ELSE IF \E k \in 1..Len(summary_keys) : SummaryAt(s, st, summary_keys[k]).some
         THEN SummaryAt(s, st,
                  summary_keys[CHOOSE k \in 1..Len(summary_keys) :
                                   SummaryAt(s, st, summary_keys[k]).some])
         ELSE SummarySearchFrom(s, st + 1)

\* re.search(r'["\'](Summary|Patient Summary|Overview)["\']\s*:\s*["\'](.*?)["\']',
\*           text, re.IGNORECASE): group 2 of the leftmost match, or None.
SummarySearch(s) == SummarySearchFrom(s, 1)

\* Step 3 of smart_parse_data before the filter: the dict built by the two scans.
RegexExtract(text) ==
    LET lists == ListLoop(ListFindAll(text, 1, <<>>), 1, <<>>)
        summary_match == SummarySearch(text)
    IN IF summary_match.some
       THEN DictSet(lists, "Patient Summary", "str", <<summary_match.s>>)
       ELSE lists

\* Step 3 of smart_parse_data: regex extraction, filter, fallback key.
RegexFallback(text) ==
    LET filtered == filter_unwanted_keys(Dict(RegexExtract(text))) IN
    IF Len(filtered.items) = 0
    THEN Dict(<<Entry("Medical Analysis", "list", <<text>>)>>)
    ELSE filtered

\* The outcome of a call: an exception raised, or the value returned.
Raised == [exc |-> TRUE, val |-> Dict(<<>>)]
Returned(v) == [exc |-> FALSE, val |-> v]

\* smart_parse_data(text) for text None or a string.  None has no replace():
\* line 82 raises AttributeError outside the try.
smart_parse_data(raw) ==
    IF ~raw.some THEN Raised
    ELSE LET text == CleanText(raw.s)
             match == BraceSpan(text)
             parsed == json_loads(match.s)
         IN IF match.some /\ parsed.ok
            THEN Returned(filter_unwanted_keys(Dict(parsed.v)))
            ELSE Returned(RegexFallback(text))

(***************************************************************************)
(* Completion texts: a frame (prose, fences, braces) around up to         *)
(* MaxFields fields joined by commas.  Each field carries the member it    *)
(* writes, so that what a text says is known apart from the parser.        *)
(***************************************************************************)
MaxFields == 2

Fields ==
    << [text |-> "\"Labs\": [\"a\",\"b\"]", json |-> TRUE,  e |-> Entry("Labs", "list", <<"a", "b">>)],
       [text |-> "\"Name\": [\"Bo\"]",      json |-> TRUE,  e |-> Entry("Name", "list", <<"Bo">>)],
       [text |-> "\"Date Of Birth\": \"x\"", json |-> TRUE, e |-> Entry("Date Of Birth", "str", <<"x">>)],
       [text |-> "\"Rx\": []",              json |-> TRUE,  e |-> Entry("Rx", "list", <<>>)],
       [text |-> "\"Summary\": \"ok\"",     json |-> TRUE,  e |-> Entry("Summary", "str", <<"ok">>)],
       [text |-> "\"Notes\": [\"a@b\"]",    json |-> TRUE,  e |-> Entry("Notes", "list", <<"a@b">>)],
       [text |-> "'Meds': ['x', 'y']",      json |-> FALSE, e |-> Entry("Meds", "list", <<"x", "y">>)],
       [text |-> "vitals: [BP 120, HR 72]", json |-> FALSE, e |-> Entry("vitals", "list", <<"BP 120", "HR 72">>)],
       [text |-> "\"Plan\": \"go {x}\"",   json |-> TRUE,  e |-> Entry("Plan", "str", <<"go {x}">>)] >>

Frames ==
    << [pre |-> "",                 open |-> "{",  close |-> "}",  post |-> ""],
       [pre |-> "~~~json\n",        open |-> "{",  close |-> "}",  post |-> "\n~~~"],
       [pre |-> "Sure! ",           open |-> "{ ", close |-> " }", post |-> " Let me know."],
       [pre |-> "Use {x}: ",        open |-> "{",  close |-> "}",  post |-> ""],
       [pre |-> "",                 open |-> "{",  close |-> "}",  post |-> " :}"],
       [pre |-> "",                 open |-> "{",  close |-> "",   post |-> ""],
       [pre |-> "",                 open |-> "",   close |-> "",   post |-> ""],
       [pre |-> "~~~\n",            open |-> "",   close |-> "",   post |-> "\n~~~\n"],
       [pre |-> "He said \"hi\" ",  open |-> "",   close |-> "",   post |-> ""] >>

\* The generators: a frame and a sequence of at most MaxFields fields.
Gens ==
    [frame : 1..Len(Frames),
     fields : UNION {[1..n -> 1..Len(Fields)] : n \in 0..MaxFields}]

RECURSIVE JoinFields(_, _)
JoinFields(fs, i) ==
    IF i > Len(fs) THEN ""
    ELSE (IF i > 1 THEN ", " ELSE "") \o Fields[fs[i]].text \o JoinFields(fs, i + 1)

\* The completion text a generator writes.
TextOf(g) ==
    LET f == Frames[g.frame]
    IN f.pre \o f.open \o JoinFields(g.fields, 1) \o f.close \o f.post

(***************************************************************************)
(* classify_medical                                                        *)
(***************************************************************************)
\* The decision classify_medical takes from the classifier's reply (lines
\* 211-223): "True", "False" or "None".  NON-MEDICAL contains MEDICAL, so the
\* second test can never succeed and the third catches every reply it was for.
Decision(reply) ==
    IF reply.some /\ reply.s # ""
    THEN LET r == Upper(Strip(reply.s)) IN
         IF Contains(r, "MEDICAL") /\ ~Contains(r, "NON-MEDICAL") THEN "True"
         ELSE IF Contains(r, "NON-MEDICAL") /\ ~Contains(r, "MEDICAL") THEN "False"
         ELSE IF Contains(r, "MEDICAL") THEN "True"
         ELSE IF Contains(r, "NON-MEDICAL") THEN "False"
         ELSE "None"
    ELSE "None"

\* classify_medical(text) given the reply of its call_online_ai: an undecided
\* reply counts as medical.  Empty text returns False before any call.
classify_medical(text, reply) ==
    IF text = "" THEN FALSE ELSE Decision(reply) # "False"

(***************************************************************************)
(* The earlier revision's parse (Dhruva_py_project_2/app.py)               *)
(***************************************************************************)
clean_ai_response(text) ==
    LET t == Replace(Replace(text, FenceJson, ""), Fence, "")
        match == BraceSpan(t)
    IN IF match.some THEN match.s ELSE t

V2Fallback(raw) ==
    Dict(<< Entry("summary", "str", <<raw>>),
            Entry("conditions", "list", <<"See Summary">>),
            Entry("medications", "list", <<"See Summary">>),
            Entry("vitals", "list", <<"See Summary">>),
            Entry("treatments", "list", <<"See Summary">>) >>)

\* Lines 252-270: the span from find('{') to rfind('}') + 1, json.loads, and the
\* fixed five-key record when that fails.
ParseV2(raw) ==
    LET cleaned == clean_ai_response(raw)
        start == IndexFrom(cleaned, {"{"}, 1)
        end == LastIndex(cleaned, {"}"})
        parsed == json_loads(SubSeq(cleaned, start, end))
    IN IF start # 0 /\ parsed.ok THEN Dict(parsed.v) ELSE V2Fallback(raw)

(***************************************************************************)
(* The upload request (index)                                              *)
(***************************************************************************)
MaxRequests == 2

\* What the collaborators may answer.
DocTexts == {"", " \n ", "BP  120\n ok"}
ClassifierReplies ==
    {None, Some(""), Some("MEDICAL"), Some("NON-MEDICAL"), Some(" medical\n"),
     Some("MEDICAL, but borderline NON-MEDICAL"), Some("unsure"), Some("Non-medical.")}
OnlineReplies ==
    {None, Some(""), Some("{\"Labs\": [\"a\"]}"), Some("{\"Name\": [\"Bo\"]}"), Some("no json")}
LocalOutputs == {None, Some(""), Some(" {\"Meds\": [\"x\"]} ")}

Call(fn, r) == [fn |-> fn, ret |-> r]

ErrExtract ==
    IF revision = "app" THEN "Error: Could not extract text."
    ELSE "Error: Could not extract text from file. File may be empty or unsupported."
ErrConnect == "Error: Failed to connect to AI service. Please try again."
Unhandled == "500 Internal Server Error"

RequestInit ==
    /\ content = ""
    /\ ai_response = None
    /\ is_med = FALSE
    /\ model_choice = "online"
    /\ raw_text = None
    /\ data = Dict(<<>>)
    /\ response = ""
    /\ calls = <<>>

Init ==
    /\ pc = "idle"
    /\ RequestInit
    /\ local_llm = FALSE
    /\ model_file \in BOOLEAN
    /\ loads = 0
    /\ nreq = 0
    /\ threads = <<>>
    /\ revision \in {"app", "v2"}
    /\ arg = 0
    /\ ret = 0

globals == <<local_llm, model_file, loads, nreq, revision, threads, arg, ret>>

\* GET, or a POST whose file is empty: the upload page (lines 303, 307, 360).
GetIndex ==
    /\ pc = "idle" /\ nreq < MaxRequests
    /\ response' = "index.html"
    /\ pc' = "done"
    /\ UNCHANGED <<content, ai_response, is_med, model_choice, raw_text, data, calls, globals>>

\* POST with a file (lines 304-305).
PostUpload ==
    /\ pc = "idle" /\ nreq < MaxRequests
    /\ model_choice' \in {"local", "online"}
    /\ pc' = "extract"
    /\ UNCHANGED <<content, ai_response, is_med, raw_text, data, response, calls, globals>>

\* extract_text_from_file: the text the OCR service returns with its whitespace
\* joined, "" when the call fails.
ExtractOcr ==
    /\ pc = "extract"
    /\ \E r \in {None} \cup {Some(t) : t \in DocTexts} :
          /\ content' = IF r.some THEN JoinSplit(r.s) ELSE ""
          /\ calls' = Append(calls, Call("ocr", r))
    /\ pc' = "check"
    /\ UNCHANGED <<ai_response, is_med, model_choice, raw_text, data, response, globals>>

\* An extension outside the supported list: the upload decoded as text.
ExtractPlain ==
    /\ pc = "extract"
    /\ content' \in DocTexts
    /\ pc' = "check"
    /\ UNCHANGED <<ai_response, is_med, model_choice, raw_text, data, response, calls, globals>>

\* Mutant: the test is 'not content'.
IsBlankNoStrip(text) == text = ""

\* not content.strip()
IsBlank(text) == Strip(text) = ""

\* Lines 319-320.
CheckEmpty ==
    /\ pc = "check"
    /\ IF IsBlank(content)
       THEN response' = ErrExtract /\ pc' = "done"
       ELSE response' = response /\ pc' = (IF revision = "app" THEN "classify" ELSE "analyse")
    /\ UNCHANGED <<content, ai_response, is_med, model_choice, raw_text, data, calls, globals>>

\* Lines 323-326: classify_medical(content) with its call of call_online_ai.
Classify ==
    /\ pc = "classify"
    /\ IF content = ""
       THEN /\ is_med' = classify_medical(content, None)
            /\ UNCHANGED <<ai_response, calls>>
       ELSE \E reply \in ClassifierReplies :
            /\ ai_response' = reply
            /\ calls' = Append(calls, Call("call_online_ai", reply))
            /\ is_med' = classify_medical(content, reply)
    /\ pc' = "gate"
    /\ UNCHANGED <<content, model_choice, raw_text, data, response, globals>>

\* Lines 328-329.
Gate ==
    /\ pc = "gate"
    /\ IF ~is_med
       THEN response' = "index.html upload_error" /\ pc' = "done"
       ELSE response' = response /\ pc' = "analyse"
    /\ UNCHANGED <<content, ai_response, is_med, model_choice, raw_text, data, calls, globals>>

\* load_local_model(): with no handle yet, download the artifact when it is
\* missing and construct the model when it is there; either may fail.
load_local_model(llm, file, download_ok, load_ok) ==
    IF llm THEN [llm |-> TRUE, file |-> file, constructed |-> FALSE]
    ELSE LET file1 == file \/ download_ok
         IN [llm |-> file1 /\ load_ok, file |-> file1, constructed |-> file1 /\ load_ok]

\* app line 349: 'if not raw_text'; v2 line 242: 'if raw_text is None'.
NeedsFallback(r) == IF revision = "app" THEN ~r.some \/ r.s = "" ELSE ~r.some

\* model_choice == 'local': call_local_ai(prompt).  None when the model is not
\* available or the inference raises, else the stripped text.
AnalyseLocal ==
    /\ pc = "analyse" /\ model_choice = "local"
    /\ \E download_ok \in BOOLEAN, load_ok \in BOOLEAN, out \in LocalOutputs :
          LET m == load_local_model(local_llm, model_file, download_ok, load_ok)
              r == IF m.llm /\ out.some THEN Some(Strip(out.s)) ELSE None
              c1 == Append(calls, Call("load_local_model", IF m.llm THEN Some("llm") ELSE None))
              c2 == IF m.llm THEN Append(c1, Call("llm", out)) ELSE c1
          IN /\ local_llm' = m.llm
             /\ model_file' = m.file
             /\ loads' = loads + (IF m.constructed THEN 1 ELSE 0)
             /\ raw_text' = r
             /\ calls' = Append(c2, Call("call_local_ai", r))
             /\ pc' = IF NeedsFallback(r) THEN "fallback" ELSE "parse"
    /\ UNCHANGED <<content, ai_response, is_med, model_choice, data, response,
                   nreq, revision, threads, arg, ret>>

\* The online completion after a local one that gave nothing.
Fallback ==
    /\ pc = "fallback"
    /\ \E reply \in OnlineReplies :
          /\ raw_text' = reply
          /\ calls' = Append(calls, Call("call_online_ai", reply))
    /\ pc' = "parse"
    /\ UNCHANGED <<content, ai_response, is_med, model_choice, data, response, globals>>

\* model_choice other than 'local': call_online_ai(prompt).
AnalyseOnline ==
    /\ pc = "analyse" /\ model_choice # "local"
    /\ \E reply \in OnlineReplies :
          /\ raw_text' = reply
          /\ calls' = Append(calls, Call("call_online_ai", reply))
    /\ pc' = "parse"
    /\ UNCHANGED <<content, ai_response, is_med, model_choice, data, response, globals>>

\* app lines 356-358: smart_parse_data(raw_text) and the result page; an
\* exception it raises is not caught.  v2 lines 248-272.
Parse ==
    /\ pc = "parse"
    /\ IF revision = "app"
       THEN LET out == smart_parse_data(raw_text) IN
            IF out.exc
            THEN response' = Unhandled /\ data' = data
            ELSE response' = "result.html" /\ data' = out.val
       ELSE IF ~raw_text.some
            THEN response' = ErrConnect /\ data' = data
            ELSE response' = "result.html" /\ data' = ParseV2(raw_text.s)
    /\ pc' = "done"
    /\ UNCHANGED <<content, ai_response, is_med, model_choice, raw_text, calls, globals>>

\* The response is sent; the next request starts from fresh locals and the
\* same module globals.
Finish ==
    /\ pc = "done"
    /\ pc' = "idle"
    /\ content' = "" /\ ai_response' = None /\ is_med' = FALSE /\ model_choice' = "online"
    /\ raw_text' = None /\ data' = Dict(<<>>) /\ response' = "" /\ calls' = <<>>
    /\ nreq' = nreq + 1
    /\ UNCHANGED <<local_llm, model_file, loads, revision, threads, arg, ret>>

Next ==
    \/ GetIndex \/ PostUpload \/ ExtractOcr \/ ExtractPlain \/ CheckEmpty
    \/ Classify \/ Gate \/ AnalyseLocal \/ Fallback \/ AnalyseOnline \/ Parse \/ Finish

Spec == Init /\ [][Next]_vars

(***************************************************************************)
(* smart_parse_data on its own: every completion text of Gens is parsed.   *)
(***************************************************************************)
InitParse ==
    /\ pc = "parse_input"
    /\ arg \in Gens
    /\ ret = Returned(Dict(<<>>))
    /\ content = "" /\ ai_response = None /\ is_med = FALSE /\ model_choice = "online"
    /\ raw_text = Some(TextOf(arg))
    /\ data = Dict(<<>>) /\ response = "" /\ calls = <<>>
    /\ local_llm = FALSE /\ model_file = FALSE /\ loads = 0 /\ nreq = 0 /\ threads = <<>>
    /\ revision = "app"

\* data = smart_parse_data(raw_text)
ParseCall ==
    /\ pc = "parse_input"
    /\ ret' = smart_parse_data(raw_text)
    /\ pc' = "parsed"
    /\ UNCHANGED <<content, ai_response, is_med, model_choice, raw_text, data, response,
                   calls, local_llm, model_file, loads, nreq, revision, threads, arg>>

NextParse == ParseCall

SpecParse == InitParse /\ [][NextParse]_vars

(***************************************************************************)
(* filter_unwanted_keys on its own: applied to a value, then to its result. *)
(***************************************************************************)
MaxEntries == 2

FilterKeys == {"Labs", "Name", "Date Of Birth", "Plan"}
FilterValues ==
    { [t |-> "list", v |-> <<"a", "b">>], [t |-> "list", v |-> <<>>],
      [t |-> "str", v |-> <<"ok">>],      [t |-> "str", v |-> <<"">>],
      [t |-> "list", v |-> <<"a@b">>],    [t |-> "str", v |-> <<"Tel: 1">>] }

FilterEntries == {Entry(k, x.t, x.v) : k \in FilterKeys, x \in FilterValues}

\* The dicts of at most MaxEntries entries, no key twice, and a value that is
\* no dict.
FilterInputs ==
    {Dict(d) : d \in {x \in UNION {[1..n -> FilterEntries] : n \in 0..MaxEntries} :
                        \A i, j \in 1..Len(x) : i # j => x[i].k # x[j].k}}
    \cup {NonDict("raw")}

InitFilter ==
    /\ pc = "filter_input"
    /\ arg \in FilterInputs
    /\ ret = <<>>
    /\ content = "" /\ ai_response = None /\ is_med = FALSE /\ model_choice = "online"
    /\ raw_text = None
    /\ data = Dict(<<>>) /\ response = "" /\ calls = <<>>
    /\ local_llm = FALSE /\ model_file = FALSE /\ loads = 0 /\ nreq = 0 /\ threads = <<>>
    /\ revision = "app"

\* filter_unwanted_keys(x), and filter_unwanted_keys of what it returned.
FilterCall ==
    /\ pc \in {"filter_input", "filtered_once"}
    /\ ret' = Append(ret, filter_unwanted_keys(IF ret = <<>> THEN arg ELSE ret[Len(ret)]))
    /\ pc' = IF pc = "filter_input" THEN "filtered_once" ELSE "filtered_twice"
    /\ UNCHANGED <<content, ai_response, is_med, model_choice, raw_text, data, response,
                   calls, local_llm, model_file, loads, nreq, revision, threads, arg>>

NextFilter == FilterCall

SpecFilter == InitFilter /\ [][NextFilter]_vars

(***************************************************************************)
(* The chat request (chat)                                                 *)
(***************************************************************************)
MaxHistory == 12

DEFAULT_MODEL == "llama3.1-8b"

\* The fixed system instruction (its first sentence stands for the whole text).
system_prompt == "You are a medical AI assistant."

\* A turn as the handler forwards it.
Turn(role, text) == [role |-> role, content |-> text]

\* An entry of the history the client sent: a JSON object with the keys it
\* holds, or a value that is no object.
HistoryEntry(isdict, keys, role, text) ==
    [isdict |-> isdict, keys |-> keys, role |-> role, content |-> text]

\* The i-th turn of a conversation; every third one carries a key the handler
\* does not read.
GoodEntry(i) ==
    HistoryEntry(TRUE,
                 IF i % 3 = 0 THEN {"role", "content", "ts"} ELSE {"role", "content"},
                 IF i % 2 = 1 THEN "user" ELSE "assistant",
                 "t" \o ToString(i))

\* The i-th turn without its role, without its content, and a string in its
\* place.
BadEntries(i) ==
    { [GoodEntry(i) EXCEPT !.keys = {"content"}],
      [GoodEntry(i) EXCEPT !.keys = {"role"}],
      HistoryEntry(FALSE, {}, "", "") }

\* data.get('history', []): absent, null, a string, or a list of at most
\* MaxHistory entries of which at most one is malformed.
ChatHistories ==
    { [kind |-> "absent", items |-> <<>>], [kind |-> "null", items |-> <<>>],
      [kind |-> "str", items |-> <<>>],
      [kind |-> "str", items |-> <<HistoryEntry(FALSE, {}, "", ""), HistoryEntry(FALSE, {}, "", "")>>] }
    \cup { [kind |-> "list", items |-> [i \in 1..n |-> GoodEntry(i)]] : n \in 0..MaxHistory }
    \cup UNION { UNION { { [kind |-> "list",
                            items |-> [i \in 1..n |-> IF i = p THEN b ELSE GoodEntry(i)]]
                           : b \in BadEntries(p) }
                         : p \in 1..n }
                 : n \in 1..MaxHistory }

\* data.get('message', ''): absent, a string, or null.
ChatMessages ==
    { [kind |-> "absent", s |-> ""], [kind |-> "null", s |-> ""],
      [kind |-> "str", s |-> ""], [kind |-> "str", s |-> " \n "],
      [kind |-> "str", s |-> "hi"], [kind |-> "str", s |-> " hi\n"] }

\* request.json: a body that is no JSON, JSON that is no object, or an object.
ChatBodies ==
    { [kind |-> "not_json", message |-> [kind |-> "absent", s |-> ""],
       history |-> [kind |-> "absent", items |-> <<>>]],
      [kind |-> "not_object", message |-> [kind |-> "absent", s |-> ""],
       history |-> [kind |-> "absent", items |-> <<>>]] }
    \cup { [kind |-> "object", message |-> m, history |-> h] : m \in ChatMessages, h \in ChatHistories }

\* A choice of the upstream body: whether it has a message object and whether
\* that has a content.
Choice(has_message, has_content, text) ==
    [has_message |-> has_message, has_content |-> has_content, content |-> text]

\* What requests.post(CHAT_URL, ...) may end in: an exception of the transport,
\* a status raise_for_status() raises on, a body that is no JSON, or a JSON
\* body: an object with or without 'choices', or a list.
UpstreamAnswers ==
    { [kind |-> "transport", choices |-> <<>>], [kind |-> "status", choices |-> <<>>],
      [kind |-> "not_json", choices |-> <<>>], [kind |-> "list", choices |-> <<>>],
      [kind |-> "no_choices", choices |-> <<>>], [kind |-> "choices", choices |-> <<>>],
      [kind |-> "choices", choices |-> <<Choice(TRUE, TRUE, "hello")>>],
      [kind |-> "choices", choices |-> <<Choice(TRUE, FALSE, "")>>],
      [kind |-> "choices", choices |-> <<Choice(FALSE, FALSE, ""), Choice(TRUE, TRUE, "second")>>] }

\* json.dumps({field: value}), status
ChatResponse(status, field, value) == [status |-> status, field |-> field, value |-> value]

\* Mutant: the slice keeps the first ten entries.
LastTenFromFront(history) == SubSeq(history, 1, IF Len(history) < 10 THEN Len(history) ELSE 10)

\* history[-10:]
LastTen(history) == SubSeq(history, IF Len(history) > 10 THEN Len(history) - 9 ELSE 1, Len(history))

\* msg['role'], msg['content'] raise on an entry that is no object or lacks
\* the key; str(e) of what is raised, "" when nothing is.
EntryError(msg) ==
    IF ~msg.isdict THEN "string indices must be integers"
    ELSE IF "role" \notin msg.keys THEN "'role'"
    ELSE IF "content" \notin msg.keys THEN "'content'"
    ELSE ""

\* Lines 257-276: the handler up to the upstream call.  Either a response
\* (ok = FALSE) or the message list it is about to post.
ChatBuild(body) ==
    LET fail(status, text) ==
            [ok |-> FALSE, resp |-> ChatResponse(status, "error", text), messages |-> <<>>]
    IN
    IF body.kind = "not_json" THEN fail(500, "400 Bad Request")
    ELSE IF body.kind # "object" THEN fail(500, "object has no attribute 'get'")
    ELSE IF body.message.kind = "null" THEN fail(500, "object has no attribute 'strip'")
    ELSE LET user_message == Strip(body.message.s) IN
         IF user_message = "" THEN fail(400, "Empty message")
         ELSE IF body.history.kind = "null" THEN fail(500, "object is not subscriptable")
         ELSE LET recent == LastTen(body.history.items)
                  bad == {i \in 1..Len(recent) : EntryError(recent[i]) # ""}
              IN IF bad # {}
                 THEN fail(500, EntryError(recent[CHOOSE i \in bad : \A j \in bad : i <= j]))
                 ELSE [ok |-> TRUE, resp |-> ChatResponse(0, "", ""),
                       messages |-> <<Turn("system", system_prompt)>>
                                    \o [i \in 1..Len(recent) |->
                                            Turn(recent[i].role, recent[i].content)]
                                    \o <<Turn("user", user_message)>>]

\* Mutant: a body without 'choices' is answered with an empty reply.
ChatReplyLenient(ans) ==
    IF ans.kind \in {"transport", "status", "not_json"}
    THEN ChatResponse(500, "error", "API Error: " \o ans.kind)
    ELSE IF ans.kind # "choices" \/ Len(ans.choices) = 0 THEN ChatResponse(200, "reply", "")
    ELSE ChatResponse(200, "reply",
                      IF ans.choices[1].has_content THEN ans.choices[1].content ELSE "")

\* Lines 279-293: the response to an upstream answer.
ChatReply(ans) ==
    IF ans.kind \in {"transport", "status", "not_json"}
    THEN ChatResponse(500, "error", "API Error: " \o ans.kind)
    ELSE IF ans.kind # "choices" THEN ChatResponse(500, "error", "Invalid API response")
    ELSE IF Len(ans.choices) = 0
         THEN ChatResponse(500, "error", "API Error: list index out of range")
         ELSE ChatResponse(200, "reply",
                           IF ans.choices[1].has_message /\ ans.choices[1].has_content
                           THEN ans.choices[1].content ELSE "")

\* chat(): the response, and the payloads posted upstream.
chat(body, ans) ==
    LET b == ChatBuild(body) IN
    IF b.ok
    THEN [resp |-> ChatReply(ans),
          posted |-> <<[model |-> DEFAULT_MODEL, messages |-> b.messages]>>]
    ELSE [resp |-> b.resp, posted |-> <<>>]

InitChat ==
    /\ pc = "chat_request"
    /\ arg \in ChatBodies
    /\ ret = ChatResponse(0, "", "")
    /\ content = "" /\ ai_response = None /\ is_med = FALSE /\ model_choice = "online"
    /\ raw_text = None
    /\ data = Dict(<<>>) /\ response = "" /\ calls = <<>>
    /\ local_llm = FALSE /\ model_file = FALSE /\ loads = 0 /\ nreq = 0 /\ threads = <<>>
    /\ revision = "app"

\* POST /chat with the body arg; the upstream service, when it is called,
\* answers ans.
ChatPost ==
    /\ pc = "chat_request"
    /\ \E ans \in UpstreamAnswers :
          LET out == chat(arg, ans) IN
          /\ ret' = out.resp
          /\ calls' = [i \in 1..Len(out.posted) |->
                          [fn |-> "requests.post", json |-> out.posted[i], ret |-> ans]]
    /\ pc' = "chat_done"
    /\ UNCHANGED <<content, ai_response, is_med, model_choice, raw_text, data, response,
                   local_llm, model_file, loads, nreq, revision, threads, arg>>

NextChat == ChatPost

SpecChat == InitChat /\ [][NextChat]_vars

(***************************************************************************)
(* load_local_model called from concurrent request threads.  The calls run  *)
(* statement by statement; a thread may be switched out between any two.    *)
(***************************************************************************)
MaxThreads == 2

\* A thread: where it stands in load_local_model, the handle it constructed
\* (0 when it constructed none) and what its last call returned.
Thread(at, llm, returned) == [pc |-> at, llm |-> llm, ret |-> returned]

InitLoad ==
    /\ pc = "serving"
    /\ threads \in {[t \in 1..n |-> Thread("idle", 0, FALSE)] : n \in 1..MaxThreads}
    /\ local_llm = FALSE
    /\ model_file \in BOOLEAN
    /\ loads = 0
    /\ nreq = 0
    /\ revision \in {"app", "v2"}
    /\ calls = <<>>
    /\ content = "" /\ ai_response = None /\ is_med = FALSE /\ model_choice = "local"
    /\ raw_text = None
    /\ data = Dict(<<>>) /\ response = ""
    /\ arg = 0 /\ ret = 0

loadlocals == <<pc, content, ai_response, is_med, model_choice, raw_text, data, response,
                revision, arg, ret>>

\* Mutant: the handle is taken to be missing whatever it holds.
IsNoneAlways(llm) == TRUE

\* local_llm is None
IsNone(llm) == ~llm

\* call_local_ai line 237 enters load_local_model; line 43: if local_llm is None.
LoadCall(t) ==
    /\ threads[t].pc = "idle" /\ nreq < MaxRequests
    /\ nreq' = nreq + 1
    /\ threads' = [threads EXCEPT ![t] =
                      Thread(IF IsNone(local_llm) THEN "exists" ELSE "return", 0, FALSE)]
    /\ UNCHANGED <<local_llm, model_file, loads, calls, loadlocals>>

\* Line 44: if not os.path.exists(LOCAL_MODEL_PATH): download_model_from_hf(),
\* which may fail.
LoadDownload(t) ==
    /\ threads[t].pc = "exists"
    /\ \E download_ok \in BOOLEAN : model_file' = (model_file \/ download_ok)
    /\ threads' = [threads EXCEPT ![t].pc = "exists_again"]
    /\ UNCHANGED <<local_llm, loads, nreq, calls, loadlocals>>

\* Line 45: if os.path.exists(LOCAL_MODEL_PATH).
LoadExists(t) ==
    /\ threads[t].pc = "exists_again"
    /\ threads' = [threads EXCEPT ![t].pc = IF model_file THEN "construct" ELSE "return"]
    /\ UNCHANGED <<local_llm, model_file, loads, nreq, calls, loadlocals>>

\* Line 50, right-hand side: Llama(...) builds a model or raises.  When it
\* raises, app line 52 only prints, v2 line 68 assigns None.
LoadConstruct(t) ==
    /\ threads[t].pc = "construct"
    /\ \/ /\ loads' = loads + 1
          /\ calls' = Append(calls, Call("Llama", loads + 1))
          /\ threads' = [threads EXCEPT ![t].pc = "assign", ![t].llm = loads + 1]
       \/ /\ threads' = [threads EXCEPT ![t].pc = IF revision = "app" THEN "return" ELSE "assign"]
          /\ UNCHANGED <<loads, calls>>
    /\ UNCHANGED <<local_llm, model_file, nreq, loadlocals>>

\* Line 50, the store: local_llm = <the model built>; v2 line 68: local_llm = None.
LoadAssign(t) ==
    /\ threads[t].pc = "assign"
    /\ local_llm' = (threads[t].llm # 0)
    /\ calls' = Append(calls, Call("local_llm", threads[t].llm))
    /\ threads' = [threads EXCEPT ![t].pc = "return"]
    /\ UNCHANGED <<model_file, loads, nreq, loadlocals>>

\* Line 53: return local_llm.
LoadReturn(t) ==
    /\ threads[t].pc = "return"
    /\ threads' = [threads EXCEPT ![t].pc = "idle", ![t].ret = local_llm]
    /\ UNCHANGED <<local_llm, model_file, loads, nreq, calls, loadlocals>>

NextLoad ==
    \/ \E t \in 1..Len(threads) : LoadCall(t)
    \/ \E t \in 1..Len(threads) : LoadDownload(t)
    \/ \E t \in 1..Len(threads) : LoadExists(t)
    \/ \E t \in 1..Len(threads) : LoadConstruct(t)
    \/ \E t \in 1..Len(threads) : LoadAssign(t)
    \/ \E t \in 1..Len(threads) : LoadReturn(t)

SpecLoad == InitLoad /\ [][NextLoad]_vars

(***************************************************************************)
(* The claims                                                              *)
(***************************************************************************)
\* The indices of the calls of a request that reach an AI: the classifier,
\* the online completion, the local model.
AiCalls(cs) ==
    {i \in 1..Len(cs) : cs[i].fn \in {"call_online_ai", "call_local_ai", "load_local_model", "llm"}}

\* The request went as far as the completion and ended.
AnalysisEnded == pc = "done" /\ response \in {"result.html", Unhandled, ErrConnect}

\* C1: when the completion is absent (raw_text is None after the local and the
\* online call), smart_parse_data returns an error-indicator record and raises
\* nothing, and the upload request ends in a user-visible result, not in an
\* unhandled error.
C1_AbsentCompletionHandled ==
    (revision = "app" /\ AnalysisEnded /\ ~raw_text.some)
        => /\ ~smart_parse_data(raw_text).exc
           /\ response # Unhandled

\* C2: for every present raw text, when the record left after parsing and
\* filtering has no key, smart_parse_data returns exactly the one key
\* "Medical Analysis" holding the original raw text as a one-element list, on
\* the JSON path and on the regex path alike; it never returns an empty record.
C2_NeverEmptyRecord ==
    pc = "parsed" =>
        LET text == CleanText(raw_text.s)
            match == BraceSpan(text)
            parsed == json_loads(match.s)
            left == IF match.some /\ parsed.ok
                    THEN filter_unwanted_keys(Dict(parsed.v))
                    ELSE filter_unwanted_keys(Dict(RegexExtract(text)))
        IN /\ ~ret.exc
           /\ Len(ret.val.items) > 0
           /\ Len(left.items) = 0
                 => ret.val = Dict(<<Entry("Medical Analysis", "list", <<raw_text.s>>)>>)

\* C3: for every string input the record smart_parse_data returns has no key
\* whose lowercase, space-to-underscore form contains a denylisted substring and
\* no key with an empty value (empty string or empty list), on the JSON path,
\* the regex path and the fallback-key path.
C3_NoDenylistedOrEmptyKey ==
    pc = "parsed" =>
        /\ ~ret.exc
        /\ \A i \in 1..Len(ret.val.items) :
              LET e == ret.val.items[i] IN
              /\ \A j \in 1..Len(unwanted_patterns) :
                    ~Contains(Replace(Lower(e.k), " ", "_"), unwanted_patterns[j])
              /\ IF e.t = "str" THEN e.v[1] # "" ELSE Len(e.v) > 0

\* A regex-path text with a denylisted key beside a kept one: the name is
\* dropped, the labs stay.
C3_Witness ==
    /\ pc = "parsed"
    /\ arg = [frame |-> 7, fields |-> <<2, 1>>]
    /\ ret.val = Dict(<<Fields[1].e>>)

\* The frames that write a JSON object: an opening and a closing brace around
\* the fields.
JsonFrame(f) == Len(Frames[f].open) > 0 /\ Len(Frames[f].close) > 0

\* The object a sequence of fields writes, as json.loads reads it: each key at
\* the place of its first member, with the value of its last.
ObjectOf(fs) ==
    LET first(i) == \A j \in 1..(i - 1) : Fields[fs[j]].e.k # Fields[fs[i]].e.k
        last(i) == CHOOSE j \in i..Len(fs) :
                       /\ Fields[fs[j]].e.k = Fields[fs[i]].e.k
                       /\ \A m \in (j + 1)..Len(fs) : Fields[fs[m]].e.k # Fields[fs[i]].e.k
        idx == SelectSeq([i \in 1..Len(fs) |-> i], first)
    IN [n \in 1..Len(idx) |-> Fields[fs[last(idx[n])]].e]

AllJson(fs) == \A i \in 1..Len(fs) : Fields[fs[i]].json

\* The text between the outer braces of the frame, braces included.
ObjectText(g) == Frames[g.frame].open \o JoinFields(g.fields, 1) \o Frames[g.frame].close

\* The first { of the fence-stripped text opens the object the generator wrote
\* and its last } closes it.
SpanIsObject ==
    LET t == CleanText(raw_text.s)
        first == IndexFrom(t, {"{"}, 1)
    IN first # 0 /\ SubSeq(t, first, LastIndex(t, {"}"})) = ObjectText(arg)

\* C5 as stated: for every raw text that contains a valid flat JSON object,
\* in fences or with prose before or after it, smart_parse_data returns exactly
\* the object's fields minus the keys the denylist removes.
C5_ObjectMinusDenylisted ==
    (pc = "parsed" /\ JsonFrame(arg.frame) /\ AllJson(arg.fields))
        => /\ ~ret.exc
           /\ ret.val = Dict(SelectSeq(ObjectOf(arg.fields), LAMBDA e : ~UnwantedKey(e.k)))

\* C5 as amended: when the span from the first { to the last } of the
\* fence-stripped text is a valid flat JSON object, smart_parse_data returns
\* that object's fields, in order, minus every key filter_unwanted_keys removes:
\* a denylisted key, an empty value, a value holding a contact marker.
C5_SpanObjectMinusFiltered ==
    (pc = "parsed" /\ JsonFrame(arg.frame) /\ AllJson(arg.fields) /\ SpanIsObject)
        => /\ ~ret.exc
           /\ ret.val = Dict(SelectSeq(ObjectOf(arg.fields),
                             LAMBDA e : ~(UnwantedKey(e.k) \/ EmptyValue(e) \/ PersonalValue(e))))

\* A fenced object with a string value that holds braces and an empty list:
\* only the plan is returned.
C5_Witness ==
    /\ pc = "parsed"
    /\ arg = [frame |-> 2, fields |-> <<9, 4>>]
    /\ SpanIsObject
    /\ ret.val = Dict(<<Fields[9].e>>)

\* The fields written as "key": ["a","b"], in either kind of quote, that the
\* filter would keep.
ListShaped(i) ==
    /\ Fields[i].e.t = "list" /\ Len(Fields[i].e.v) > 0
    /\ Head(Fields[i].text) \in Quotes
    /\ KeepEntry(Fields[i].e)

\* C6: for every raw text with no valid JSON span that holds a substring of
\* the shape "key": ["a","b"], the regex fallback returns a record in which key
\* maps to the quoted items in order, whatever quoted text precedes it.
C6_ListFieldRecovered ==
    (/\ pc = "parsed"
     /\ LET m == BraceSpan(CleanText(raw_text.s)) IN ~(m.some /\ json_loads(m.s).ok))
        => \A n \in 1..Len(arg.fields) :
              ListShaped(arg.fields[n])
                  => \E i \in 1..Len(ret.val.items) : ret.val.items[i] = Fields[arg.fields[n]].e

\* C7: the unquoted input vitals: [BP 120, HR 72] is recovered as
\* {"vitals": ["BP 120", "HR 72"]} by a comma split of the bracket content.
C7_UnquotedListRecovered ==
    (pc = "parsed" /\ raw_text = Some("vitals: [BP 120, HR 72]"))
        => ret.val = Dict(<<Entry("vitals", "list", <<"BP 120", "HR 72">>)>>)

\* C8: filter_unwanted_keys is idempotent: filtering what it returned gives
\* the same value, keys in the same order, for dicts and for values that are
\* no dict.
C8_FilterIdempotent ==
    pc = "filtered_twice" => ret[2] = ret[1]

\* A dict that loses its first key and keeps its second, filtered twice.
C8_Witness ==
    /\ pc = "filtered_twice"
    /\ arg.isdict /\ Len(arg.items) = 2
    /\ Len(ret[1].items) = 1 /\ ret[1].items[1] = arg.items[2]

\* The classifier's rule as the claim states it, on the tokens of the upper-
\* cased reply: MEDICAL standing alone is the positive token, NON-MEDICAL the
\* negative one.
NegativeToken(r) == Contains(r, "NON-MEDICAL")
PositiveToken(r) ==
    \E i \in 1..Len(r) :
        StartsAt(r, "MEDICAL", i) /\ ~(i > 4 /\ StartsAt(r, "NON-MEDICAL", i - 4))
ClaimedGate(reply) ==
    IF ~reply.some THEN TRUE
    ELSE LET r == Upper(reply.s) IN
         IF PositiveToken(r) /\ ~NegativeToken(r) THEN TRUE
         ELSE IF NegativeToken(r) /\ ~PositiveToken(r) THEN FALSE
         ELSE TRUE

\* C4: for non-empty text, a reply with MEDICAL and without NON-MEDICAL gives
\* true, a reply with NON-MEDICAL and without the positive token gives false, a
\* reply with both or neither, or no reply, gives true.
C4_GateDecisionRule ==
    pc = "gate" => is_med = ClaimedGate(ai_response)

\* C9: when the extracted text is empty or only whitespace (an OCR failure
\* gives the empty string), the request ends with the plain error string and
\* makes no AI call: no classification, no local and no online completion.
C9_NoAiCallOnBlankText ==
    (/\ Strip(content) = ""
     /\ pc \in {"check", "classify", "gate", "analyse", "fallback", "parse", "done"}
     /\ ~(pc = "done" /\ response = "index.html"))
        => /\ AiCalls(calls) = {}
           /\ pc \in {"check", "done"}
           /\ pc = "done" => response = ErrExtract

\* An upload of whitespace only, answered with the error string.
C9_Witness ==
    /\ pc = "done" /\ content = " \n " /\ response = ErrExtract /\ calls = <<>>

\* C10: with model_choice 'local' and call_local_ai returning None the request
\* does not fail: the online completion is called exactly once afterwards and
\* its result is the one normalized.  With another model_choice the local model
\* is neither loaded nor called.
C10_LocalFallsBackToOnline ==
    AnalysisEnded =>
        LET loc == {i \in 1..Len(calls) : calls[i].fn = "call_local_ai"}
            online_after == {i \in 1..Len(calls) :
                                /\ calls[i].fn = "call_online_ai"
                                /\ \E j \in loc : j < i}
        IN /\ (model_choice = "local" /\ \E j \in loc : ~calls[j].ret.some)
                 => /\ response # Unhandled
                    /\ Cardinality(online_after) = 1
                    /\ \A i \in online_after : raw_text = calls[i].ret
           /\ model_choice # "local"
                 => \A i \in 1..Len(calls) :
                        calls[i].fn \notin {"call_local_ai", "load_local_model", "llm"}

\* The chat request was answered.
ChatDone == pc = "chat_done"

\* The body is an object with a string message that is not blank and a list
\* (or no) history whose entries all are objects with a role and a content.
WellFormedChat ==
    /\ arg.kind = "object"
    /\ arg.message.kind = "str" /\ Strip(arg.message.s) # ""
    /\ arg.history.kind \in {"absent", "list"}
    /\ \A i \in 1..Len(arg.history.items) :
          arg.history.items[i].isdict /\ {"role", "content"} \subseteq arg.history.items[i].keys

\* C11: for every chat request with a non-empty message and a history of any
\* length, the message list posted upstream is the fixed system instruction
\* first, then the most recent min(10, len(history)) history turns in their
\* order with role and content unchanged (and nothing else of the entry), then
\* the user's message (as the handler reads it, stripped) last; it never holds
\* more than 12 entries.  Such a request is posted exactly once.
C11_ForwardedMessageList ==
    ChatDone =>
        /\ WellFormedChat => Len(calls) = 1
        /\ \A c \in 1..Len(calls) :
              LET m == calls[c].json.messages
                  h == arg.history.items
                  n == IF Len(h) < 10 THEN Len(h) ELSE 10
              IN /\ Len(m) = n + 2
                 /\ Len(m) <= 12
                 /\ m[1] = [role |-> "system", content |-> system_prompt]
                 /\ \A j \in 1..n :
                       m[1 + j] = [role |-> h[Len(h) - n + j].role,
                                   content |-> h[Len(h) - n + j].content]
                 /\ m[n + 2] = [role |-> "user", content |-> Strip(arg.message.s)]

\* Twelve turns of history and a message with whitespace around it: the first
\* two turns are left out, the tenth kept turn is the twelfth.
C11_Witness ==
    /\ ChatDone /\ WellFormedChat
    /\ Len(arg.history.items) = 12 /\ arg.message.s = " hi\n"
    /\ Len(calls) = 1 /\ Len(calls[1].json.messages) = 12
    /\ calls[1].json.messages[2] = [role |-> "user", content |-> "t3"]
    /\ calls[1].json.messages[11] = [role |-> "assistant", content |-> "t12"]
    /\ calls[1].json.messages[12] = [role |-> "user", content |-> "hi"]

\* The two outcomes of a chat request.
ReplyOutcome == ret.field = "reply" /\ ret.status \in 200..299
ErrorOutcome == ret.field = "error" /\ ret.status \notin 200..299

\* The message is absent, empty or blank.
EmptyChatMessage ==
    arg.kind = "object" /\ arg.message.kind \in {"absent", "str"} /\ Strip(arg.message.s) = ""

\* The body is no JSON object, the message is no string, or the history
\* cannot be sliced.
MalformedChatBody ==
    arg.kind # "object" \/ arg.message.kind = "null" \/ arg.history.kind = "null"

\* The entry is no object or lacks its role or its content.
MalformedEntry(e) == ~e.isdict \/ ~({"role", "content"} \subseteq e.keys)

\* The upstream call was made and did not answer 2xx with a body holding
\* 'choices'.
UpstreamFailed == \E c \in 1..Len(calls) : calls[c].ret.kind # "choices"

\* C12 as stated: every POST to the chat endpoint ends in a 'reply' body with
\* a success status or in an 'error' body with a non-2xx status.  A transport
\* error or non-2xx upstream answer, an upstream body without 'choices', a
\* malformed request body, a malformed history entry (any entry) and an empty
\* message (status 400, no upstream call) all end in the error outcome.
C12_ChatOutcomes ==
    ChatDone =>
        /\ ReplyOutcome \/ ErrorOutcome
        /\ EmptyChatMessage => ret.status = 400 /\ calls = <<>>
        /\ ( \/ UpstreamFailed \/ MalformedChatBody \/ EmptyChatMessage
             \/ (arg.kind = "object" /\ \E i \in 1..Len(arg.history.items) :
                                            MalformedEntry(arg.history.items[i])) )
               => ErrorOutcome

\* C12 as amended: the same, with the malformed history entry among the most
\* recent 10 entries of the history, which are the ones the handler reads.
C12_ChatOutcomesOfEntriesRead ==
    ChatDone =>
        /\ ReplyOutcome \/ ErrorOutcome
        /\ EmptyChatMessage => ret.status = 400 /\ calls = <<>>
        /\ ( \/ UpstreamFailed \/ MalformedChatBody \/ EmptyChatMessage
             \/ (arg.kind = "object" /\ \E i \in 1..Len(arg.history.items) :
                                            /\ i > Len(arg.history.items) - 10
                                            /\ MalformedEntry(arg.history.items[i])) )
               => ErrorOutcome

\* Twelve entries of which the fifth lacks its role: the handler reads it and
\* answers 500 without calling upstream.
C12_Witness ==
    /\ ChatDone
    /\ arg.message.s = "hi" /\ Len(arg.history.items) = 12
    /\ arg.history.items[5].keys = {"content"}
    /\ ret = [status |-> 500, field |-> "error", value |-> "'role'"]
    /\ calls = <<>>

\* Thread t is inside load_local_model past the test of line 43 and has not
\* yet stored a handle.
Loading(t) == threads[t].pc \in {"exists", "exists_again", "construct", "assign"}

\* In this step the call of thread u passes the test of line 43.
PassesCheck(u) == LoadCall(u) /\ threads'[u].pc = "exists"

\* C13: local_llm has no concurrency guard: while one thread is loading and
\* local_llm is still None, a call of another thread passes the
\* 'local_llm is None' test as well, so that both construct the model and the
\* later store overwrites the earlier handle (the witness).  With a single
\* thread, once local_llm is not None no later call constructs the model
\* again and the handle stays.
C13_UnguardedLazyLoad ==
    /\ [](\A t, u \in 1..Len(threads) :
             (t # u /\ Loading(t) /\ ~local_llm /\ threads[u].pc = "idle" /\ nreq < MaxRequests)
                 => ENABLED PassesCheck(u))
    /\ [][(Len(threads) = 1 /\ local_llm) => (loads' = loads /\ local_llm')]_vars

\* Two threads passed the test before either stored: the model was built
\* twice, both handles were stored, the second over the first, and the two
\* calls returned.
C13_Witness ==
    /\ Len(threads) = 2 /\ loads = 2 /\ local_llm
    /\ calls = <<Call("Llama", 1), Call("Llama", 2), Call("local_llm", 1), Call("local_llm", 2)>>
    /\ \A t \in 1..2 : threads[t].pc = "idle" /\ threads[t].ret

====
